---- MODULE Spec2Model ----
(***************************************************************************)
(* Model of docs/check_migration_protocol.py: the six-channel migration    *)
(* protocol checker.  The program builds a precedence table, closes it     *)
(* under composition (compute_partially_ordered_map), and then walks the   *)
(* channel advances from the seed snapshot (recur_check), validating each  *)
(* snapshot it builds (validate_states).                                   *)
(*                                                                         *)
(* Three specifications share the variables:                               *)
(*   Spec          the program run: check() from start to exit             *)
(*   SpecClosure   compute_partially_ordered_map on any table over a       *)
(*                 small set of nodes                                      *)
(*   SpecValidate  validate_states on any snapshot of real states          *)
(***************************************************************************)
EXTENDS Integers, Sequences, FiniteSets, TLC

VARIABLES
    pc,          \* position of the run
    keys,        \* the table's keys in insertion order (m.items() order)
    m0,          \* the table as handed to compute_partially_ordered_map
    m,           \* the table: node -> set of nodes whose entry is True
    row,         \* index in keys of the next row the current pass scans
    last_count,  \* compute_partially_ordered_map's last_count
    stack,       \* recur_check activations, innermost last
    sts,         \* the snapshot last built (recur_check's sts / validate_states' argument)
    valid,       \* the result of the last validate_states call
    validated,   \* every snapshot handed to validate_states so far
    output,      \* the lines printed so far
    exit_status  \* <<status>> once sys.exit has been called, <<>> before

vars == <<pc, keys, m0, m, row, last_count, stack, sts, valid, validated,
          output, exit_status>>

----------------------------------------------------------------------------
(* Enumerations, in declaration order *)

MetaStore == <<"Ms", "Ls", "Rs", "Md", "Ld", "Rd">>

MetaState == <<"Start", "End", "Queue", "RedirectToPeer", "RedirectToSelf",
               "MgrSet", "Slot", "MgrSlot", "IptSlot", "Any">>

Stores == {MetaStore[i] : i \in 1..Len(MetaStore)}

States == {MetaState[i] : i \in 1..Len(MetaState)}

\* the states a channel can really hold: Any is a pattern only
RealStates == States \ {"Any"}

None == "None"

SeqToSet(s) == {s[i] : i \in 1..Len(s)}

gen_store_order ==
    [Ms |-> <<"Start", "MgrSet", "Queue", "RedirectToPeer", "End">>,
     Ls |-> <<"Slot", "MgrSlot", "End">>,
     Rs |-> <<"Start", "IptSlot", "Slot">>,
     Md |-> <<"Start", "RedirectToPeer", "RedirectToSelf", "End">>,
     Ld |-> <<"Start", "IptSlot", "Slot">>,
     Rd |-> <<"Slot", "MgrSlot", "End">>]

----------------------------------------------------------------------------
(* The validator *)

state_eq(s1, s2) ==
    IF "Any" \in {s1, s2} THEN TRUE ELSE s1 = s2

get_all_states(states) ==
    <<states["Ms"], states["Ls"], states["Rs"],
      states["Md"], states["Ld"], states["Rd"]>>

equal_tuple(states, tpl) ==
    \A i \in 1..6 : state_eq(get_all_states(states)[i], tpl[i])

SlotStates == {"Slot", "MgrSlot", "IptSlot"}

\* the early "return False" for a local slot state is missing
check_redirectingMut(states_tpl) ==
    LET mm == states_tpl[1]
        r == states_tpl[3]
    IN  IF mm \in {"RedirectToPeer"} THEN TRUE
        ELSE r \in SlotStates

check_redirecting(states_tpl) ==
    LET mm == states_tpl[1]
        l == states_tpl[2]
        r == states_tpl[3]
    IN  IF mm \in {"RedirectToPeer"} THEN TRUE
        ELSE IF l \in SlotStates THEN FALSE
        ELSE r \in SlotStates

\* the early "return False" for RedirectToPeer is missing
check_processingMut(states_tpl) ==
    LET mm == states_tpl[1]
        l == states_tpl[2]
    IN  IF mm \in {"Queue"} THEN TRUE
        ELSE l \in SlotStates

check_processing(states_tpl) ==
    LET mm == states_tpl[1]
        l == states_tpl[2]
    IN  IF mm \in {"RedirectToPeer"} THEN FALSE
        ELSE IF mm \in {"Queue"} THEN TRUE
        ELSE l \in SlotStates

\* the third tuple has RemoteData at Start where the code has MgrSlot
valid_statesMut ==
    << <<"Start", "Slot", "Any", "Start", "Start", "Slot">>,
       <<"Start", "MgrSlot", "Any", "Start", "Start", "Slot">>,
       <<"Start", "MgrSlot", "Any", "Start", "Start", "Start">> >>

valid_states ==
    << <<"Start", "Slot", "Any", "Start", "Start", "Slot">>,
       <<"Start", "MgrSlot", "Any", "Start", "Start", "Slot">>,
       <<"Start", "MgrSlot", "Any", "Start", "Start", "MgrSlot">> >>

validate_states(states) ==
    IF \E i \in 1..Len(valid_states) : equal_tuple(states, valid_states[i])
    THEN TRUE
    ELSE LET mgr_states == <<states["Ms"], states["Ls"], states["Rs"]>>
             ipt_states == <<states["Md"], states["Ld"], states["Rd"]>>
         IN  IF check_processing(mgr_states) /\ check_redirecting(ipt_states)
             THEN TRUE
             ELSE IF check_redirecting(mgr_states) /\ check_processing(ipt_states)
             THEN TRUE
             ELSE FALSE

----------------------------------------------------------------------------
(* The precedence table *)

\* the 60 (store, state) keys, in the order the nested loops insert them
AllKeys ==
    [k \in 1..(Len(MetaStore) * Len(MetaState)) |->
        <<MetaStore[((k - 1) \div Len(MetaState)) + 1],
          MetaState[((k - 1) % Len(MetaState)) + 1]>>]

Nodes == SeqToSet(AllKeys)

\* basic_order[store][:-1] x basic_order[store][1:]
basic_order_pairs ==
    {<<x, y>> \in Nodes \X Nodes :
        /\ x[1] = y[1]
        /\ LET o == gen_store_order[x[1]]
           IN  /\ \E i \in 1..(Len(o) - 1) : o[i] = x[2]
               /\ \E j \in 2..Len(o) : o[j] = y[2]}

\* the hand-written cross-channel facts
causal_facts ==
    { << <<"Rs", "IptSlot">>, <<"Ms", "MgrSet">> >>,
      << <<"Ms", "MgrSet">>, <<"Ls", "MgrSlot">> >>,
      << <<"Rd", "MgrSlot">>, <<"Md", "RedirectToPeer">> >>,
      << <<"Md", "RedirectToPeer">>, <<"Ld", "IptSlot">> >>,
      << <<"Ms", "Queue">>, <<"Md", "RedirectToSelf">> >>,
      << <<"Md", "RedirectToSelf">>, <<"Ms", "RedirectToPeer">> >> }

\* the table gen_partially_ordered_map hands to compute_partially_ordered_map
initial_map ==
    [x \in Nodes |-> {y \in Nodes : <<x, y>> \in basic_order_pairs \cup causal_facts}]

RECURSIVE SumCard(_, _, _)
SumCard(tbl, ks, i) ==
    IF i > Len(ks) THEN 0 ELSE Cardinality(tbl[ks[i]]) + SumCard(tbl, ks, i + 1)

\* rows holding a true entry are counted, where the code counts the entries
get_table_true_countMut(tbl, ks) ==
    Cardinality({i \in 1..Len(ks) : tbl[ks[i]] # {}})

get_table_true_count(tbl, ks) == SumCard(tbl, ks, 1)

\* one iteration of the outer for loop: the row is scanned column by column
\* and updated in place, so a column set earlier in the scan is seen later
\* the inner loop reads m[row_key] where the code reads m[dst]
RECURSIVE scan_rowMut(_, _, _, _)
scan_rowMut(tbl, ks, row_key, i) ==
    IF i > Len(ks) THEN tbl
    ELSE LET col_key == ks[i]
         IN  IF col_key \notin tbl[row_key]
             THEN scan_rowMut(tbl, ks, row_key, i + 1)
             ELSE scan_rowMut([tbl EXCEPT ![row_key] = @ \cup tbl[row_key]],
                              ks, row_key, i + 1)

RECURSIVE scan_row(_, _, _, _)
scan_row(tbl, ks, row_key, i) ==
    IF i > Len(ks) THEN tbl
    ELSE LET col_key == ks[i]
         IN  IF col_key \notin tbl[row_key]
             THEN scan_row(tbl, ks, row_key, i + 1)
             ELSE scan_row([tbl EXCEPT ![row_key] = @ \cup tbl[col_key]],
                           ks, row_key, i + 1)

\* the rows lo to hi scanned in turn, each on the table the rows before it
\* left; the range is halved to keep the evaluation shallow
RECURSIVE scan_rows(_, _, _, _)
scan_rows(tbl, ks, lo, hi) ==
    IF lo > hi THEN tbl
    ELSE IF lo = hi THEN scan_row(tbl, ks, ks[lo], 1)
    ELSE CHOOSE t \in {scan_rows(scanned, ks, mid + 1, hi) :
                          mid \in {(lo + hi) \div 2},
                          scanned \in {scan_rows(tbl, ks, lo, (lo + hi) \div 2)}} : TRUE

\* one pass of the while loop: every row scanned in turn, from row r on
scan_table(tbl, ks, r) == scan_rows(tbl, ks, r, Len(ks))

\* the loop ends on ">=" where the code has "=="
count_unchangedMut(count, last) == count >= last

\* the test that ends the while loop
count_unchanged(count, last) == count = last

\* the whole of compute_partially_ordered_map: passes until the count of
\* true entries stays the same
RECURSIVE compute_partially_ordered_map(_, _)
compute_partially_ordered_map(tbl, ks) ==
    CHOOSE t \in {IF count_unchanged(get_table_true_count(scanned, ks),
                                      get_table_true_count(tbl, ks))
                   THEN scanned
                   ELSE compute_partially_ordered_map(scanned, ks) :
                      scanned \in {scan_table(tbl, ks, 1)}} : TRUE

\* the table check() hands to recur_check
gen_partially_ordered_map ==
    LET closed == compute_partially_ordered_map(initial_map, AllKeys)
    IN  [x \in Nodes |-> closed[x]]

----------------------------------------------------------------------------
(* The search *)

\* the channel's last state is returned (states[-1] for states[i+1])
get_next_stateMut(orderred_states, store, curr_state) ==
    LET states == orderred_states[store]
    IN  IF \E i \in 1..Len(states) : states[i] = curr_state
        THEN LET i == CHOOSE i \in 1..Len(states) :
                        /\ states[i] = curr_state
                        /\ \A j \in 1..(i - 1) : states[j] # curr_state
             IN  IF Len(states) = i THEN None ELSE states[Len(states)]
        ELSE None

\* the state before the last is taken for the last (i+2 for i+1)
get_next_stateEarly(orderred_states, store, curr_state) ==
    LET states == orderred_states[store]
    IN  IF \E i \in 1..Len(states) : states[i] = curr_state
        THEN LET i == CHOOSE i \in 1..Len(states) :
                        /\ states[i] = curr_state
                        /\ \A j \in 1..(i - 1) : states[j] # curr_state
             IN  IF Len(states) <= i + 1 THEN None ELSE states[i + 1]
        ELSE None

get_next_state(orderred_states, store, curr_state) ==
    LET states == orderred_states[store]
    IN  IF \E i \in 1..Len(states) : states[i] = curr_state
        THEN LET i == CHOOSE i \in 1..Len(states) :
                        /\ states[i] = curr_state
                        /\ \A j \in 1..(i - 1) : states[j] # curr_state
             IN  IF Len(states) = i THEN None ELSE states[i + 1]
        ELSE None

\* the advancing channel's own row is left out of the loop
check_orderMut(curr_states, new_store, new_state, tbl) ==
    \E store \in DOMAIN curr_states \ {new_store} :
        <<new_store, new_state>> \in tbl[<<store, curr_states[store]>>]

check_order(curr_states, new_store, new_state, tbl) ==
    \E store \in DOMAIN curr_states :
        <<new_store, new_state>> \in tbl[<<store, curr_states[store]>>]

RECURSIVE Factorial(_)
Factorial(n) == IF n <= 1 THEN 1 ELSE n * Factorial(n - 1)

RemoveAt(s, i) == SubSeq(s, 1, i - 1) \o SubSeq(s, i + 1, Len(s))

\* the k-th tuple (k from 0) that itertools.permutations(s) yields: tuples
\* come in lexicographic order of positions, so the first element is
\* s[k \div (n-1)! + 1] and the others are a permutation of the remainder
RECURSIVE permutations(_, _)
permutations(s, k) ==
    IF Len(s) = 0 THEN <<>>
    ELSE LET f == Factorial(Len(s) - 1)
         IN  CHOOSE p \in {<<s[i]>> \o permutations(rest, k % f) :
                              i \in {(k \div f) + 1},
                              rest \in {RemoveAt(s, (k \div f) + 1)}} : TRUE

\* the two channels that start at Slot are left at Start
seed_statesMut == [s \in Stores |-> "Start"]

\* the snapshot check() starts from
seed_states ==
    [s \in Stores |-> IF s \in {"Ls", "Rd"} THEN "Slot" ELSE "Start"]

Frame(curr_states, next_stores) ==
    [curr_states |-> curr_states, next_stores |-> next_stores, perm |-> 0]

Top == stack[Len(stack)]

----------------------------------------------------------------------------
(* Bounds *)

\* number of table keys in the closure specification
NumNodes == 3

ClosureKeys == SubSeq(AllKeys, 1, NumNodes)

\* longest channel list recur_check is started with in the recursion
\* specification
MaxStores == 1

\* the lists of distinct channels of length 1 to MaxStores
StoreLists ==
    {q \in UNION {[1..n -> Stores] : n \in 1..MaxStores} :
        \A i, j \in DOMAIN q : i # j => q[i] # q[j]}

\* the snapshots in which every channel holds a state of its own subsequence
OwnSnapshots ==
    {s \in [Stores -> RealStates] :
        \A c \in Stores : s[c] \in SeqToSet(gen_store_order[c])}

----------------------------------------------------------------------------
(* Actions: compute_partially_ordered_map *)

\* one iteration of "for row_key, values in m.items()"
compute_scan_row ==
    /\ pc = "closure"
    /\ row <= Len(keys)
    /\ m' = scan_row(m, keys, keys[row], 1)
    /\ row' = row + 1
    /\ UNCHANGED <<pc, keys, m0, last_count, stack, sts, valid, validated, output, exit_status>>

\* the pass is over and the count has changed: go round the while loop
compute_next_pass ==
    /\ pc = "closure"
    /\ row > Len(keys)
    /\ ~count_unchanged(get_table_true_count(m, keys), last_count)
    /\ last_count' = get_table_true_count(m, keys)
    /\ row' = 1
    /\ UNCHANGED <<pc, keys, m0, m, stack, sts, valid, validated, output, exit_status>>

\* the pass is over and the count has not changed: return m
compute_return ==
    /\ pc = "closure"
    /\ row > Len(keys)
    /\ count_unchanged(get_table_true_count(m, keys), last_count)
    /\ pc' = "returned"
    /\ UNCHANGED <<keys, m0, m, row, last_count, stack, sts, valid, validated, output, exit_status>>

----------------------------------------------------------------------------
(* Actions: check and recur_check *)

\* compute_partially_ordered_map returns into check(), which builds the seed
\* snapshot and the channel list and calls recur_check
check_recur_check ==
    /\ pc = "closure"
    /\ row > Len(keys)
    /\ count_unchanged(get_table_true_count(m, keys), last_count)
    /\ pc' = "search"
    /\ stack' = <<Frame(seed_states, MetaStore)>>
    /\ UNCHANGED <<keys, m0, m, row, last_count, sts, valid, validated, output, exit_status>>

\* the channel list handed to the recursive call
recursive_storesMut(next_stores, stores) == next_stores

recursive_stores(next_stores, stores) == Tail(stores)

\* the for loop stays on the permutation it has just tried
next_permutationMut(frame) == frame

\* the for loop moves on to the next permutation
next_permutation(frame) == [frame EXCEPT !.perm = @ + 1]

\* sts is curr_states itself, not a copy of it
enter_recursionMut(stk, new, rest) ==
    Append([stk EXCEPT ![Len(stk)] = [next_permutation(@) EXCEPT !.curr_states = new]],
           Frame(new, rest))

\* sts = deepcopy(curr_states) with one channel set; recur_check(sts, deepcopy(stores))
enter_recursion(stk, new, rest) ==
    Append([stk EXCEPT ![Len(stk)] = next_permutation(@)], Frame(new, rest))

\* the last channel is left out
pretty_print_statesMut(states) ==
    [i \in 1..(Len(MetaStore) - 1) |-> <<MetaStore[i], states[MetaStore[i]]>>]

\* one printed line per channel, in the dictionary's order
pretty_print_states(states) ==
    [i \in 1..Len(MetaStore) |-> <<MetaStore[i], states[MetaStore[i]]>>]

\* one iteration of "for stores in next_stores_perm" in the innermost activation
recur_check_step ==
    /\ pc = "search"
    /\ stack # <<>>
    /\ Top.next_stores # <<>>
    /\ Top.perm < Factorial(Len(Top.next_stores))
    /\ LET curr_states == Top.curr_states
           stores == permutations(Top.next_stores, Top.perm)
           next_store == Head(stores)
           next_state == get_next_state(gen_store_order, next_store, curr_states[next_store])
           continued == [stack EXCEPT ![Len(stack)] = next_permutation(@)]
       IN  IF next_state = None
           THEN /\ stack' = continued
                /\ UNCHANGED <<pc, sts, valid, validated, output, exit_status>>
           ELSE IF ~check_order(curr_states, next_store, next_state, m)
           THEN /\ stack' = continued
                /\ UNCHANGED <<pc, sts, valid, validated, output, exit_status>>
           ELSE LET new == [curr_states EXCEPT ![next_store] = next_state]
                IN  /\ sts' = new
                    /\ valid' = validate_states(new)
                    /\ validated' = validated \cup {new}
                    /\ IF ~validate_states(new)
                       THEN /\ pc' = "fatal"
                            /\ output' = output
                                  \o << <<"Invalid States:", next_store, next_state>> >>
                                  \o pretty_print_states(new)
                            /\ exit_status' = <<1>>
                            /\ stack' = stack
                       ELSE /\ pc' = pc
                            /\ stack' = enter_recursion(stack, new,
                                   recursive_stores(Top.next_stores, stores))
                            /\ UNCHANGED <<output, exit_status>>
    /\ UNCHANGED <<keys, m0, m, row, last_count>>

\* the innermost activation returns: its channel list is empty or its
\* permutations are exhausted
recur_check_return ==
    /\ pc = "search"
    /\ stack # <<>>
    /\ \/ Top.next_stores = <<>>
       \/ Top.perm >= Factorial(Len(Top.next_stores))
    /\ stack' = SubSeq(stack, 1, Len(stack) - 1)
    /\ pc' = IF Len(stack) = 1 THEN "done" ELSE pc
    /\ UNCHANGED <<keys, m0, m, row, last_count, sts, valid, validated, output, exit_status>>

----------------------------------------------------------------------------
(* Action: validate_states on its own *)

validate_call ==
    /\ pc = "validate"
    /\ valid' = validate_states(sts)
    /\ validated' = validated \cup {sts}
    /\ pc' = "validated"
    /\ UNCHANGED <<keys, m0, m, row, last_count, stack, sts, output, exit_status>>

----------------------------------------------------------------------------
(* Specifications *)

\* the program: check() runs once at load time
Init ==
    /\ pc = "closure"
    /\ keys = AllKeys
    /\ m0 = initial_map
    /\ m = initial_map
    /\ row = 1
    /\ last_count = get_table_true_count(initial_map, AllKeys)
    /\ stack = <<>>
    /\ sts = seed_states
    /\ valid = TRUE
    /\ validated = {}
    /\ output = <<>>
    /\ exit_status = <<>>

Next ==
    \/ compute_scan_row
    \/ compute_next_pass
    \/ check_recur_check
    \/ recur_check_step
    \/ recur_check_return

Spec == Init /\ [][Next]_vars

\* compute_partially_ordered_map on any table over ClosureKeys, and on the
\* table gen_partially_ordered_map builds
InitClosure ==
    /\ pc = "closure"
    /\ \/ /\ keys = ClosureKeys
          /\ m0 \in [SeqToSet(ClosureKeys) -> SUBSET SeqToSet(ClosureKeys)]
       \/ /\ keys = AllKeys
          /\ m0 = initial_map
    /\ m = m0
    /\ row = 1
    /\ last_count = get_table_true_count(m0, keys)
    /\ stack = <<>>
    /\ sts = seed_states
    /\ valid = TRUE
    /\ validated = {}
    /\ output = <<>>
    /\ exit_status = <<>>

NextClosure ==
    \/ compute_scan_row
    \/ compute_next_pass
    \/ compute_return

SpecClosure == InitClosure /\ [][NextClosure]_vars

\* validate_states on any snapshot of real states
InitValidate ==
    /\ pc = "validate"
    /\ keys = <<>>
    /\ m0 = <<>>
    /\ m = <<>>
    /\ row = 1
    /\ last_count = 0
    /\ stack = <<>>
    /\ sts \in [Stores -> RealStates]
    /\ valid = TRUE
    /\ validated = {}
    /\ output = <<>>
    /\ exit_status = <<>>

NextValidate == validate_call

SpecValidate == InitValidate /\ [][NextValidate]_vars

\* the program under the interpreter, which keeps running its one thread
\* until the program returns or exits
SpecFair == Init /\ [][Next]_vars /\ WF_vars(Next)

\* compute_partially_ordered_map under the interpreter, which keeps running
\* it until it returns
SpecClosureFair == InitClosure /\ [][NextClosure]_vars /\ WF_vars(NextClosure)

\* recur_check called with the closed table on any snapshot of
\* own-subsequence states and any list in StoreLists
InitRecur ==
    /\ pc = "search"
    /\ keys = AllKeys
    /\ m0 = initial_map
    /\ m = gen_partially_ordered_map
    /\ row = Len(AllKeys) + 1
    /\ last_count = get_table_true_count(m, keys)
    /\ \E s \in OwnSnapshots, q \in StoreLists :
          /\ stack = <<Frame(s, q)>>
          /\ sts = s
    /\ valid = TRUE
    /\ validated = {}
    /\ output = <<>>
    /\ exit_status = <<>>

NextRecur ==
    \/ recur_check_step
    \/ recur_check_return

SpecRecur == InitRecur /\ [][NextRecur]_vars

----------------------------------------------------------------------------
(* Claims *)

\* C1: the run from the seed snapshot never builds a snapshot that
\* validate_states rejects, so the fatal exit is never taken.
C1_NeverFatal == pc # "fatal"

\* position of a state in its channel's subsequence
StateIndex(store, state) ==
    CHOOSE i \in 1..Len(gen_store_order[store]) : gen_store_order[store][i] = state

\* for each fact "A reaching sA precedes B reaching sB": B at sB or later
\* only if A at sA or later
RespectsFacts(s) ==
    \A f \in causal_facts :
        LET a == f[1]
            b == f[2]
        IN  StateIndex(b[1], s[b[1]]) >= StateIndex(b[1], b[2])
                => StateIndex(a[1], s[a[1]]) >= StateIndex(a[1], a[2])

\* C2: the search respects the causal facts: in every snapshot it builds,
\* a channel is at or past the later state of a fact only if the other
\* channel is at or past the earlier state of that fact.
C2_RespectsCausalFacts == \A s \in validated : RespectsFacts(s)

\* the snapshots one advance away from s that respect the facts
ProtocolSuccessors(s) ==
    {t \in {[s EXCEPT ![c] = get_next_state(gen_store_order, c, s[c])] :
                c \in {d \in Stores : get_next_state(gen_store_order, d, s[d]) # None}} :
        RespectsFacts(t)}

RECURSIVE ProtocolReach(_, _)
ProtocolReach(frontier, seen) ==
    IF frontier = {} THEN seen
    ELSE LET new == UNION {ProtocolSuccessors(s) : s \in frontier} \ seen
         IN  ProtocolReach(new, seen \cup new)

\* the snapshots of the protocol state machine reachable from the seed by
\* one or more single-channel advances
ProtocolReachable == ProtocolReach({seed_states}, {})

\* C3: the search is exhaustive: when the run ends, the snapshots handed to
\* validate_states are exactly the snapshots reachable from the seed in the
\* protocol state machine.
C3_Exhaustive ==
    pc \in {"done", "fatal"} => validated = ProtocolReachable

\* the two logical triples of a snapshot
MgrTriple(s) == <<s["Ms"], s["Ls"], s["Rs"]>>

IptTriple(s) == <<s["Md"], s["Ld"], s["Rd"]>>

\* every channel holds a state of its own subsequence
OwnSubsequences(s) ==
    \A c \in Stores : s[c] \in SeqToSet(gen_store_order[c])

\* the snapshot equals one of the three tuples outside the Any position
MatchesExemption(s) ==
    \E i \in 1..Len(valid_states) :
        \A p \in {1, 2, 4, 5, 6} : get_all_states(s)[p] = valid_states[i][p]

\* C4: a snapshot of own-subsequence states that validate_states accepts
\* through the mutual-exclusion rule never has both triples processing and
\* never has both triples redirecting.
C4_DifferentPhases ==
    (pc = "validated" /\ OwnSubsequences(sts) /\ ~MatchesExemption(sts) /\ valid)
        => /\ ~(check_processing(MgrTriple(sts)) /\ check_processing(IptTriple(sts)))
           /\ ~(check_redirecting(MgrTriple(sts)) /\ check_redirecting(IptTriple(sts)))

\* the phases as the claim words them
ClaimProcessing(t) ==
    t[1] = "Queue" \/ (t[2] \in {"Slot", "MgrSlot", "IptSlot"} /\ t[1] # "RedirectToPeer")

ClaimRedirecting(t) ==
    t[1] = "RedirectToPeer"
        \/ (t[2] \notin {"Slot", "MgrSlot", "IptSlot"} /\ t[3] \in {"Slot", "MgrSlot", "IptSlot"})

Scenario(ms, ls, rs, md, ld, rd) ==
    [Ms |-> ms, Ls |-> ls, Rs |-> rs, Md |-> md, Ld |-> ld, Rd |-> rd]

\* C5: validate_states is true iff the snapshot matches an exemption tuple,
\* or the manager side is processing and the data side redirecting, or the
\* manager side is redirecting and the data side processing; in particular
\* (Queue,Slot,Start,Start,Start,Slot) is valid and
\* (RedirectToPeer,MgrSlot,Start,Start,Start,Start) is not.
C5_ValidIff ==
    pc = "validated" =>
        /\ valid <=> \/ MatchesExemption(sts)
                     \/ ClaimProcessing(MgrTriple(sts)) /\ ClaimRedirecting(IptTriple(sts))
                     \/ ClaimRedirecting(MgrTriple(sts)) /\ ClaimProcessing(IptTriple(sts))
        /\ sts = Scenario("Queue", "Slot", "Start", "Start", "Start", "Slot") => valid
        /\ sts = Scenario("RedirectToPeer", "MgrSlot", "Start", "Start", "Start", "Start")
               => ~valid

C5_Witness ==
    /\ pc = "validated"
    /\ sts = Scenario("RedirectToPeer", "MgrSlot", "Start", "Start", "Start", "Start")
    /\ ~valid

\* s matches no exemption tuple, and agrees with one of them outside
\* channel c and the Any position
ChangedAt(s, c) ==
    /\ ~MatchesExemption(s)
    /\ \E i \in 1..Len(valid_states) :
          \A p \in {1, 2, 4, 5, 6} :
              MetaStore[p] # c => get_all_states(s)[p] = valid_states[i][p]

\* C6 (as claimed): an exemption tuple is valid for every RemoteSelf value,
\* and changing one of its other positions so that it matches none of the
\* three tuples makes it invalid.
C6_ChangedIsInvalid ==
    pc = "validated" =>
        /\ MatchesExemption(sts) => valid
        /\ \A c \in Stores \ {"Rs"} : ChangedAt(sts, c) => ~valid

\* the single-position changes that the mutual-exclusion rule rejects
RejectedChange(c, v) ==
    \/ c = "Ms" /\ v = "RedirectToPeer"
    \/ c \in {"Ls", "Rd"} /\ v \notin {"Slot", "MgrSlot", "IptSlot"}
    \/ c = "Ld" /\ v \in {"Slot", "MgrSlot", "IptSlot"}

\* C6 (amended): an exemption tuple is valid for every RemoteSelf value; a
\* change of one other position that leaves the three tuples makes it
\* invalid exactly when ManagerSelf becomes RedirectToPeer, LocalSelf or
\* RemoteData leaves {Slot, MgrSlot, IptSlot}, or LocalData enters it.
C6_ChangedInvalidIffRejected ==
    pc = "validated" =>
        /\ MatchesExemption(sts) => valid
        /\ \A c \in Stores \ {"Rs"} :
              ChangedAt(sts, c) => (~valid <=> RejectedChange(c, sts[c]))

C6_Witness ==
    /\ pc = "validated"
    /\ ChangedAt(sts, "Ms")
    /\ sts["Ms"] = "Queue"
    /\ valid

\* the search has the closed table in hand
Closed == pc \in {"search", "done", "fatal"}

\* s comes before t in channel c's subsequence
Before(c, s, t) ==
    \E i, j \in 1..Len(gen_store_order[c]) :
        /\ i < j
        /\ gen_store_order[c][i] = s
        /\ gen_store_order[c][j] = t

\* C7: within one channel the closed relation is exactly the channel's
\* declared order: (c,s) precedes (c,t) iff s comes before t in c's
\* subsequence.
C7_IntraChannelOrder ==
    Closed => \A c \in Stores : \A s, t \in States :
                 (<<c, t>> \in m[<<c, s>>]) <=> Before(c, s, t)

\* C8: the relation compute_partially_ordered_map returns is transitive.
C8_Transitive ==
    pc = "returned" =>
        \A x \in DOMAIN m : \A y \in m[x] : \A z \in m[y] : z \in m[x]

C8_Witness ==
    /\ pc = "returned"
    /\ keys = AllKeys
    /\ <<"Ld", "IptSlot">> \in m[<<"Rd", "MgrSlot">>]
    /\ <<"Ld", "IptSlot">> \notin m0[<<"Rd", "MgrSlot">>]

\* the nodes a chain of one or more edges of r leads to, given the nodes
\* already reached and those reached last
RECURSIVE ChainEnds(_, _, _)
ChainEnds(r, frontier, seen) ==
    LET new == UNION {r[y] : y \in frontier} \ seen
    IN  IF new = {} THEN seen ELSE ChainEnds(r, new, seen \cup new)

TransitiveClosure(r) == [x \in DOMAIN r |-> ChainEnds(r, r[x], r[x])]

\* C9: compute_partially_ordered_map returns exactly the transitive closure
\* of the table it was given: an entry is true iff a chain of one or more
\* initially true entries joins the two nodes.
C9_ExactClosure ==
    pc = "returned" => m = TransitiveClosure(m0)

C9_Witness ==
    /\ pc = "returned"
    /\ keys = ClosureKeys
    /\ \E x \in DOMAIN m : x \in m[x] /\ x \notin m0[x]

\* C10: the closed relation is antisymmetric: no two distinct nodes precede
\* each other.
C10_Antisymmetric ==
    Closed => \A x \in Nodes : \A y \in m[x] : x # y => x \notin m[y]

\* the channel in which snapshot t differs from snapshot s, when there is one
Advanced(s, t) == {c \in Stores : s[c] # t[c]}

\* C11: the first rejected snapshot stops everything: the process exits with
\* a non-zero status after reporting the advancing channel, the candidate
\* state and the whole six-channel snapshot, and nothing changes afterwards.
C11_FirstInvalidStops ==
    /\ [](~valid =>
            /\ pc = "fatal"
            /\ exit_status # <<>>
            /\ exit_status[1] # 0
            /\ Len(output) = 1 + Len(MetaStore)
            /\ \E c \in Advanced(Top.curr_states, sts) :
                  output[1] = <<"Invalid States:", c, sts[c]>>
            /\ \A i \in 1..Len(MetaStore) :
                  output[i + 1] = <<MetaStore[i], sts[MetaStore[i]]>>)
    /\ [][pc = "fatal" => UNCHANGED vars]_vars

C11_Witness ==
    /\ pc = "fatal"
    /\ ~valid
    /\ output[1] = <<"Invalid States:", "Ld", "IptSlot">>

RECURSIVE SumOfLengths(_)
SumOfLengths(i) ==
    IF i > Len(MetaStore) THEN 0
    ELSE Len(gen_store_order[MetaStore[i]]) + SumOfLengths(i + 1)

\* C12: the search terminates, by returning or by the fatal exit, and the
\* recursion is never deeper than the sum of the subsequence lengths.
C12_Terminates ==
    /\ <>(pc \in {"done", "fatal"})
    /\ [](Len(stack) <= SumOfLengths(1))

C12_Witness ==
    /\ pc \in {"done", "fatal"}
    /\ Len(stack) <= SumOfLengths(1)
    /\ validated # {}

\* C13: the closure computation terminates: it reaches a pass that leaves
\* the count of true entries unchanged and returns; entries only ever go
\* from false to true; and at the return one more pass would add nothing.
C13_ClosureTerminates ==
    /\ <>(pc = "returned")
    /\ [][\A x \in DOMAIN m : m[x] \subseteq m'[x]]_vars
    /\ [](pc = "returned" =>
            /\ get_table_true_count(m, keys) = last_count
            /\ scan_table(m, keys, 1) = m)

C13_Witness ==
    /\ pc = "returned"
    /\ keys = ClosureKeys
    /\ last_count > get_table_true_count(m0, keys)
    /\ scan_table(m, keys, 1) = m

\* the snapshots the search holds (one per activation) or has built
HeldSnapshots ==
    {sts} \cup validated \cup {stack[i].curr_states : i \in 1..Len(stack)}

\* C14: in every snapshot the search holds or builds, the seed included,
\* each channel holds a state of its own subsequence, and never Any.
C14_OwnStates ==
    \A s \in HeldSnapshots :
        /\ OwnSubsequences(s)
        /\ \A c \in Stores : s[c] # "Any"

C14_Witness ==
    /\ pc = "search"
    /\ Len(stack) = Len(MetaStore) + 1
    /\ seed_states \in HeldSnapshots
    /\ Top.curr_states \in validated

\* the step builds a candidate snapshot: it enters the recursion or exits
BuildsCandidate ==
    /\ pc = "search"
    /\ pc' = "fatal" \/ Len(stack') > Len(stack)

\* the channel the innermost activation tries in its current permutation
TriedStore == Head(permutations(Top.next_stores, Top.perm))

\* C15: every step of the search changes exactly one channel: the candidate
\* is the current snapshot with the chosen channel moved to the immediate
\* successor of its state; the other five channels are unchanged.
C15_OneChannelOneStep ==
    [][BuildsCandidate =>
          /\ StateIndex(TriedStore, sts'[TriedStore])
                = StateIndex(TriedStore, Top.curr_states[TriedStore]) + 1
          /\ \A d \in Stores \ {TriedStore} : sts'[d] = Top.curr_states[d]
          /\ Len(stack') > Len(stack) => stack'[Len(stack')].curr_states = sts'
      ]_vars

C15_Witness ==
    /\ pc = "search"
    /\ Len(stack) = 3
    /\ Top.curr_states = sts
    /\ Advanced(stack[2].curr_states, sts) = {"Ls"}
    /\ sts["Ls"] = "MgrSlot"

\* the innermost activation is about to try a permutation
Iterating ==
    /\ pc = "search"
    /\ stack # <<>>
    /\ Top.next_stores # <<>>
    /\ Top.perm < Factorial(Len(Top.next_stores))

\* the channel's state is the last of its subsequence
Terminal(c, state) == StateIndex(c, state) = Len(gen_store_order[c])

\* C16: get_next_state returns the immediate successor in the channel's
\* subsequence, and none exactly at the channel's terminal state; a channel
\* without a next state is skipped: nothing is built, nothing changes but
\* the permutation tried, and the run does not exit.
C16_NextStateOrSkip ==
    [][Iterating =>
          LET c == TriedStore
              cur == Top.curr_states[c]
              nxt == get_next_state(gen_store_order, c, cur)
          IN  /\ (nxt = None) <=> Terminal(c, cur)
              /\ ~Terminal(c, cur) => nxt = gen_store_order[c][StateIndex(c, cur) + 1]
              /\ Terminal(c, cur) =>
                    /\ pc' = "search"
                    /\ stack' = [stack EXCEPT ![Len(stack)].perm = @ + 1]
                    /\ UNCHANGED <<sts, valid, validated, output, exit_status>>
      ]_vars

C16_Witness ==
    /\ pc = "search"
    /\ Len(stack) = 1
    /\ Top.next_stores = <<"Rs">>
    /\ Top.curr_states["Rs"] = "Slot"
    /\ Top.perm = 1
    /\ validated = {}

\* the activations that are on the stack both before and after the step
Surviving == {i \in 1..Len(stack) : i <= Len(stack')}

\* C17: exploring a branch never changes the snapshot or the channel list of
\* the caller: every activation that stays on the stack keeps its
\* curr_states and its next_stores through every step, the entry into a
\* recursive call and the return from it included, so each permutation of
\* one level starts from the same snapshot.
C17_CallerUnchanged ==
    [][\A i \in Surviving :
          /\ stack'[i].curr_states = stack[i].curr_states
          /\ stack'[i].next_stores = stack[i].next_stores
      ]_vars

\* an activation has had a recursive call return and has entered the call of
\* its second permutation
C17_Witness ==
    /\ pc = "search"
    /\ \E i \in 1..(Len(stack) - 1) : stack[i].perm = 2

\* how many places the channel's state is past the seed's
StepsFromSeed(c, state) == StateIndex(c, state) - StateIndex(c, seed_states[c])

\* C18: along a search path each channel is advanced at most once: the
\* activation at depth d has the six channels less the d it has advanced, all
\* distinct and all still at their seed state; the depth is at most six; every
\* snapshot held or built is at most one step from the seed in each channel,
\* so ManagerSelf is never beyond MgrSet and no channel is at End.
C18_EachChannelOnce ==
    /\ Len(stack) <= Len(MetaStore) + 1
    /\ \A i \in 1..Len(stack) :
          LET ns == stack[i].next_stores
          IN  /\ Len(ns) = Len(MetaStore) - (i - 1)
              /\ \A j, k \in 1..Len(ns) : j # k => ns[j] # ns[k]
              /\ \A j \in 1..Len(ns) :
                    stack[i].curr_states[ns[j]] = seed_states[ns[j]]
    /\ \A s \in HeldSnapshots :
          /\ \A c \in Stores : StepsFromSeed(c, s[c]) \in {0, 1}
          /\ s["Ms"] \in {"Start", "MgrSet"}
          /\ \A c \in Stores : s[c] # "End"

\* the search is six calls deep and every channel is one step past the seed
C18_Witness ==
    /\ pc = "search"
    /\ Len(stack) = Len(MetaStore) + 1
    /\ \A c \in Stores : StepsFromSeed(c, Top.curr_states[c]) = 1

\* C19: check_order accepts every candidate get_next_state produces: for
\* every snapshot of own-subsequence states and every channel with a next
\* state, the closed table holds the next state in the row of the channel's
\* own current state, so check_order is true and the step goes on to build
\* the candidate instead of skipping it.
C19_OrderNeverSkips ==
    [][Iterating =>
          LET c == TriedStore
              cur == Top.curr_states[c]
              nxt == get_next_state(gen_store_order, c, cur)
          IN  nxt # None =>
                 /\ <<c, nxt>> \in m[<<c, cur>>]
                 /\ check_order(Top.curr_states, c, nxt, m)
                 /\ BuildsCandidate
                 /\ sts'[c] = nxt
      ]_vars

\* a candidate has been built for a channel whose next state no other
\* channel's current state precedes
C19_Witness ==
    /\ pc = "search"
    /\ Len(stack) = 2
    /\ stack[1].perm = 1
    /\ LET c == stack[1].next_stores[1]
       IN  /\ sts[c] # stack[1].curr_states[c]
           /\ \A d \in Stores \ {c} :
                 <<c, sts[c]>> \notin m[<<d, stack[1].curr_states[d]>>]

\* validate_states with the list of exemption tuples removed
RuleOnly(s) ==
    \/ check_processing(MgrTriple(s)) /\ check_redirecting(IptTriple(s))
    \/ check_redirecting(MgrTriple(s)) /\ check_processing(IptTriple(s))

\* C20: the boundary exemptions are subsumed by the mutual-exclusion rule:
\* a snapshot that matches one of the three tuples, whatever RemoteSelf
\* holds, has a processing manager side and a redirecting data side, and
\* validate_states returns for every snapshot what the rule alone returns.
C20_ExemptionsSubsumed ==
    pc = "validated" =>
        /\ MatchesExemption(sts) =>
              /\ check_processing(MgrTriple(sts))
              /\ check_redirecting(IptTriple(sts))
        /\ valid = RuleOnly(sts)

C20_Witness ==
    /\ pc = "validated"
    /\ equal_tuple(sts, valid_states[3])
    /\ sts["Rs"] = "End"
    /\ valid

====
